---- MODULE Spec2Model ----
(***************************************************************************)
(* The game-state machine of tetris_core (src/src/game.rs): playfield,     *)
(* active/next piece, gravity clock, lock sequence, scoring and game-over. *)
(* The Board, ActiveFigure, Figure and move_validator modules are used by  *)
(* game.rs but are not part of the available sources; they are modelled    *)
(* from their documented contracts.                                        *)
(***************************************************************************)
EXTENDS Integers, Sequences, FiniteSets, TLC

(* ------------------------------ bounds --------------------------------- *)
\* Size passed to Game::new.
Width == 4
Height == 4
\* update(delta_time) is called with delta_time in 0..MaxDelta (whole seconds).
MaxDelta == 2
\* A lock sequence is only started while fewer than MaxLines rows were removed
\* and fewer than MaxCells cells of the board are occupied.
MaxLines == 1
MaxCells == 5

\* Values the injected Randomizer may return.
RandomValues == {0, 3}
\* Randomizer values -MaxRandom..MaxRandom are tried when only spawning is
\* looked at.
MaxRandom == 8
\* perform calls made in a game when gravity is followed forever.
MaxActions == 1

(* --------------------------- program constants ------------------------- *)
MOVING_PERIOD == 1

None == "None"
FigureType == {"I", "J", "L", "O", "S", "T", "Z"}
Action == {"MoveDown", "MoveLeft", "MoveRight", "Rotate"}
GameState == {"Playing", "GameOver"}

Point(px, py) == [x |-> px, y |-> py]

(* ----------------------- Figure: the shape table ----------------------- *)
\* Side of the square matrix a kind is drawn in.
MatrixSize(kind) ==
    CASE kind = "I" -> 4
      [] kind = "O" -> 2
      [] OTHER -> 3

\* Occupied matrix cells <<column, row>> of a kind in its spawn orientation.
BaseCells(kind) ==
    CASE kind = "I" -> {<<0, 1>>, <<1, 1>>, <<2, 1>>, <<3, 1>>}
      [] kind = "J" -> {<<0, 0>>, <<0, 1>>, <<1, 1>>, <<2, 1>>}
      [] kind = "L" -> {<<2, 0>>, <<0, 1>>, <<1, 1>>, <<2, 1>>}
      [] kind = "O" -> {<<0, 0>>, <<1, 0>>, <<0, 1>>, <<1, 1>>}
      [] kind = "S" -> {<<1, 0>>, <<2, 0>>, <<0, 1>>, <<1, 1>>}
      [] kind = "T" -> {<<1, 0>>, <<0, 1>>, <<1, 1>>, <<2, 1>>}
      [] OTHER      -> {<<0, 0>>, <<1, 0>>, <<1, 1>>, <<2, 1>>}

\* One clockwise quarter turn of a set of matrix cells.
RotateCells(cells, n) == {<<n - 1 - c[2], c[1]>> : c \in cells}

RECURSIVE ShapeCells(_, _)
ShapeCells(kind, rotation) ==
    IF rotation = 0 THEN BaseCells(kind)
    ELSE RotateCells(ShapeCells(kind, rotation - 1), MatrixSize(kind))

\* Wall-kick offsets tried after the naive rotation, by kind and by the
\* rotation state the piece leaves, in priority order.
WallKickOffsets(kind, rotation) ==
    CASE kind = "O" -> << >>
      [] kind = "I" ->
           CASE rotation = 0 -> << <<-2, 0>>, <<1, 0>>, <<-2, 1>>, <<1, -2>> >>
             [] rotation = 1 -> << <<-1, 0>>, <<2, 0>>, <<-1, -2>>, <<2, 1>> >>
             [] rotation = 2 -> << <<2, 0>>, <<-1, 0>>, <<2, -1>>, <<-1, 2>> >>
             [] OTHER        -> << <<1, 0>>, <<-2, 0>>, <<1, 2>>, <<-2, -1>> >>
      [] OTHER ->
           CASE rotation = 0 -> << <<-1, 0>>, <<-1, -1>>, <<0, 2>>, <<-1, 2>> >>
             [] rotation = 1 -> << <<1, 0>>, <<1, 1>>, <<0, -2>>, <<1, -2>> >>
             [] rotation = 2 -> << <<1, 0>>, <<1, -1>>, <<0, 2>>, <<1, 2>> >>
             [] OTHER        -> << <<-1, 0>>, <<-1, 1>>, <<0, -2>>, <<-1, -2>> >>

(* ----------------------------- ActiveFigure ---------------------------- *)
\* ActiveFigure::new(figure, position)
NewActiveFigure(kind, position) ==
    [kind |-> kind, rotation |-> 0, position |-> position]

to_cartesian(figure) ==
    {Point(figure.position.x + c[1], figure.position.y + c[2]) :
        c \in ShapeCells(figure.kind, figure.rotation)}

translated(figure, dx, dy) ==
    [figure EXCEPT !.position = Point(@.x + dx, @.y + dy)]

moved_left(figure) == translated(figure, -1, 0)
moved_right(figure) == translated(figure, 1, 0)
moved_down(figure) == translated(figure, 0, 1)

rotated(figure) == [figure EXCEPT !.rotation = (@ + 1) % 4]

wall_kicked_rotation_tests(figure) ==
    LET offsets == WallKickOffsets(figure.kind, figure.rotation)
    IN  <<rotated(figure)>> \o
        [i \in 1..Len(offsets) |->
            translated(rotated(figure), offsets[i][1], offsets[i][2])]

(* -------------------------------- Board -------------------------------- *)
\* A board is a sequence of rows, top row first; a row is a sequence of
\* cells, leftmost first; a cell is None or the kind that landed there.
EmptyLine(w) == [i \in 1..w |-> None]

\* Board::new(size)
NewBoard(h, w) == [j \in 1..h |-> EmptyLine(w)]

board_height(b) == Len(b)
board_width(b) == IF Len(b) = 0 THEN 0 ELSE Len(b[1])

figure_at_xy(b, px, py) ==
    IF px >= 0 /\ px < board_width(b) /\ py >= 0 /\ py < board_height(b)
    THEN b[py + 1][px + 1]
    ELSE None

replacing_figure_at_xy(b, px, py, cell) ==
    IF px >= 0 /\ px < board_width(b) /\ py >= 0 /\ py < board_height(b)
    THEN [b EXCEPT ![py + 1][px + 1] = cell]
    ELSE b

\* get_line(row): the row, or the empty sequence standing for Option::None.
HasLine(b, line_number) == line_number >= 0 /\ line_number < board_height(b)
get_line(b, line_number) == b[line_number + 1]

RECURSIVE KeepLines(_, _, _)
KeepLines(b, removed, j) ==
    IF j > Len(b) THEN << >>
    ELSE (IF (j - 1) \in removed THEN << >> ELSE <<b[j]>>)
         \o KeepLines(b, removed, j + 1)

\* removing_lines(rows): rows are indices before any removal.
removing_lines(b, line_numbers) ==
    LET removed == {line_numbers[i] : i \in 1..Len(line_numbers)} \cap
                   (0..(board_height(b) - 1))
        kept == KeepLines(b, removed, 1)
    IN  [j \in 1..Cardinality(removed) |-> EmptyLine(board_width(b))] \o kept

(* ---------------------------- move_validator --------------------------- *)
has_valid_position(figure, b) ==
    \A p \in to_cartesian(figure) :
        /\ p.x >= 0 /\ p.x < board_width(b)
        /\ p.y >= 0 /\ p.y < board_height(b)
        /\ figure_at_xy(b, p.x, p.y) = None

can_move_down(figure, b) == has_valid_position(moved_down(figure), b)

(* --------------------------------- Game -------------------------------- *)
VARIABLES board, score, active, next, waiting_time, state, lines, call

vars == <<board, score, active, next, waiting_time, state, lines, call>>

\* The Game struct as a value.
Self ==
    [board |-> board, score |-> score, active |-> active, next |-> next,
     waiting_time |-> waiting_time, state |-> state, lines |-> lines]

figure_start_point(width) == Point((width \div 2) - 2, 0)

\* random_figure indexing the kinds by random modulo 7.
random_figure_modulo(position, random) ==
    LET kinds == <<"I", "J", "L", "O", "S", "T", "Z">>
    IN  NewActiveFigure(kinds[(random % 7) + 1], position)

\* random is the value returned by randomizer.random().
random_figure(position, random) ==
    LET figure == CASE random = 0 -> "I"
                    [] random = 1 -> "J"
                    [] random = 2 -> "L"
                    [] random = 3 -> "O"
                    [] random = 4 -> "S"
                    [] random = 5 -> "T"
                    [] OTHER      -> "Z"
    IN  NewActiveFigure(figure, position)

\* Game::new(size, randomizer); random1 and random2 are the two draws.
new(height, width, random1, random2) ==
    LET start_point == figure_start_point(width)
    IN  [board |-> NewBoard(height, width),
         score |-> 0,
         active |-> random_figure(start_point, random1),
         next |-> random_figure(start_point, random2),
         waiting_time |-> 0,
         state |-> "Playing",
         lines |-> 0]

is_game_over(g) == g.state = "GameOver"

\* update_active_with without the has_valid_position test.
update_active_with_unchecked(g, new_active) ==
    [g EXCEPT !.active = new_active]

update_active_with(g, new_active) ==
    IF has_valid_position(new_active, g.board)
    THEN [g EXCEPT !.active = new_active]
    ELSE g

move_left(g) == update_active_with(g, moved_left(g.active))
move_right(g) == update_active_with(g, moved_right(g.active))
\* move_down locking the piece in place when it cannot move (a hard landing).
move_down_locking(g) ==
    IF has_valid_position(moved_down(g.active), g.board)
    THEN [g EXCEPT !.active = moved_down(g.active)]
    ELSE [g EXCEPT !.board =
             [j \in 1..board_height(g.board) |->
                 [i \in 1..board_width(g.board) |->
                     IF Point(i - 1, j - 1) \in to_cartesian(g.active)
                     THEN g.active.kind
                     ELSE g.board[j][i]]]]

move_down(g) == update_active_with(g, moved_down(g.active))

\* wall_kick_index taking the last valid candidate instead of the first.
wall_kick_index_last(g) ==
    LET tests == wall_kicked_rotation_tests(g.active)
        valid == {i \in 1..Len(tests) : has_valid_position(tests[i], g.board)}
    IN  IF valid = {} THEN 0
        ELSE CHOOSE i \in valid : \A j \in valid : i >= j

\* Index in wall_kicked_rotation_tests of the figure that find() returns,
\* 0 when find() returns Option::None.
wall_kick_index(g) ==
    LET tests == wall_kicked_rotation_tests(g.active)
        valid == {i \in 1..Len(tests) : has_valid_position(tests[i], g.board)}
    IN  IF valid = {} THEN 0
        ELSE CHOOSE i \in valid : \A j \in valid : i <= j

rotate_active_figure(g) ==
    IF wall_kick_index(g) # 0
    THEN update_active_with(
             g, wall_kicked_rotation_tests(g.active)[wall_kick_index(g)])
    ELSE g

perform(g, action) ==
    CASE action = "MoveLeft"  -> move_left(g)
      [] action = "MoveRight" -> move_right(g)
      [] action = "MoveDown"  -> move_down(g)
      [] action = "Rotate"    -> rotate_active_figure(g)

\* The loop over to_cartesian(): one replacing_figure_at_xy per point.
RECURSIVE replacing_figures(_, _, _)
replacing_figures(b, points, cell) ==
    IF points = {} THEN b
    ELSE LET point == CHOOSE p \in points : TRUE
         IN  replacing_figures(
                 replacing_figure_at_xy(b, point.x, point.y, cell),
                 points \ {point}, cell)

add_active_figure_to_board(g) ==
    [g EXCEPT !.board =
        replacing_figures(g.board, to_cartesian(g.active), g.active.kind)]

\* is_line_completed looking at the first cell of the line only.
is_line_completed_first_cell(g, line_number) ==
    IF HasLine(g.board, line_number)
    THEN get_line(g.board, line_number)[1] # None
    ELSE FALSE

is_line_completed(g, line_number) ==
    IF HasLine(g.board, line_number)
    THEN \A i \in 1..board_width(g.board) :
             get_line(g.board, line_number)[i] # None
    ELSE FALSE

RECURSIVE lines_completed_from(_, _)
lines_completed_from(g, line_number) ==
    IF line_number >= board_height(g.board) THEN << >>
    ELSE (IF is_line_completed(g, line_number) THEN <<line_number>> ELSE << >>)
         \o lines_completed_from(g, line_number + 1)

\* lines_completed stopping at the first completed line.
lines_completed_first_only(g) ==
    IF lines_completed_from(g, 0) = << >> THEN << >>
    ELSE <<lines_completed_from(g, 0)[1]>>

lines_completed(g) == lines_completed_from(g, 0)

\* remove_completed_lines that forgets to count the removed lines.
remove_completed_lines_uncounted(g) ==
    [g EXCEPT !.board = removing_lines(g.board, lines_completed(g))]

remove_completed_lines(g) ==
    [g EXCEPT !.board = removing_lines(g.board, lines_completed(g)),
              !.lines = @ + Len(lines_completed(g))]

\* add_score_for giving one bonus per lock instead of one per line.
add_score_for_flat(g, completed_lines) ==
    [g EXCEPT !.score = @ + (IF completed_lines > 0 THEN 100 ELSE 0)]

add_score_for(g, completed_lines) ==
    [g EXCEPT !.score = @ + completed_lines * 100]

\* random is the value the randomizer returns for the new next figure.
add_new_active_figure(g, random) ==
    LET start_point == figure_start_point(board_width(g.board))
        promoted == update_active_with(g, g.next)
    IN  [promoted EXCEPT !.next = random_figure(start_point, random)]

check_is_game_over(g) ==
    g.active.position.y = 0 /\ ~has_valid_position(g.active, g.board)

update_state(g) ==
    IF check_is_game_over(g) THEN [g EXCEPT !.state = "GameOver"] ELSE g

update_next_figure(g, random) ==
    LET stamped == add_active_figure_to_board(g)
        completed_lines_count == Len(lines_completed(stamped))
        removed == remove_completed_lines(stamped)
        scored == add_score_for(removed, completed_lines_count)
        spawned == add_new_active_figure(scored, random)
    IN  update_state(spawned)

\* update_game that locks in the same tick when the moved piece has landed.
update_game_move_then_lock(g, random) ==
    IF g.state = "GameOver" THEN g
    ELSE IF can_move_down(g.active, g.board)
    THEN (IF can_move_down(move_down(g).active, g.board)
          THEN move_down(g)
          ELSE update_next_figure(move_down(g), random))
    ELSE update_next_figure(g, random)

\* update_game without the GameOver early return.
update_game_unguarded(g, random) ==
    IF can_move_down(g.active, g.board) THEN move_down(g)
    ELSE update_next_figure(g, random)

\* update_game whose GameOver branch starts the game again.
update_game_reviving(g, random) ==
    IF g.state = "GameOver" THEN [g EXCEPT !.state = "Playing"]
    ELSE IF can_move_down(g.active, g.board) THEN move_down(g)
    ELSE update_next_figure(g, random)

update_game(g, random) ==
    IF g.state = "GameOver" THEN g
    ELSE IF can_move_down(g.active, g.board) THEN move_down(g)
    ELSE update_next_figure(g, random)

\* update ticking as soon as the accumulated time reaches the period.
update_inclusive(g, delta_time, random) ==
    LET waited == [g EXCEPT !.waiting_time = @ + delta_time]
    IN  IF waited.waiting_time >= MOVING_PERIOD
        THEN [update_game(waited, random) EXCEPT !.waiting_time = 0]
        ELSE waited

update(g, delta_time, random) ==
    LET waited == [g EXCEPT !.waiting_time = @ + delta_time]
    IN  IF waited.waiting_time > MOVING_PERIOD
        THEN [update_game(waited, random) EXCEPT !.waiting_time = 0]
        ELSE waited

(* ------------------------------ the driver ----------------------------- *)
\* Which path the last public call took through the code.
update_branch(g, delta_time) ==
    IF ~(g.waiting_time + delta_time > MOVING_PERIOD) THEN "wait"
    ELSE IF g.state = "GameOver" THEN "over"
    ELSE IF can_move_down(g.active, g.board) THEN "down"
    ELSE "lock"

perform_candidate(g, action) ==
    CASE action = "MoveLeft"  -> moved_left(g.active)
      [] action = "MoveRight" -> moved_right(g.active)
      [] action = "MoveDown"  -> moved_down(g.active)
      [] action = "Rotate"    -> rotated(g.active)

perform_branch(g, action) ==
    IF action = "Rotate"
    THEN (IF wall_kick_index(g) # 0 THEN "adopted" ELSE "ignored")
    ELSE (IF has_valid_position(perform_candidate(g, action), g.board)
          THEN "adopted" ELSE "ignored")

Store(g) ==
    /\ board' = g.board
    /\ score' = g.score
    /\ active' = g.active
    /\ next' = g.next
    /\ waiting_time' = g.waiting_time
    /\ state' = g.state
    /\ lines' = g.lines

NoCall ==
    [op |-> "new", action |-> "none", delta |-> 0, branch |-> "none",
     kick |-> 0, removed |-> 0]

OccupiedCells(b) ==
    Cardinality({c \in (1..board_height(b)) \X (1..board_width(b)) :
                    b[c[1]][c[2]] # None})

Init ==
    \E random1 \in RandomValues, random2 \in RandomValues :
        LET g == new(Height, Width, random1, random2)
        IN  /\ board = g.board
            /\ score = g.score
            /\ active = g.active
            /\ next = g.next
            /\ waiting_time = g.waiting_time
            /\ state = g.state
            /\ lines = g.lines
            /\ call = NoCall

Update ==
    \E delta_time \in 0..MaxDelta, random \in RandomValues :
        /\ update_branch(Self, delta_time) = "lock" =>
               lines < MaxLines /\ OccupiedCells(board) < MaxCells
        /\ Store(update(Self, delta_time, random))
        /\ call' = [NoCall EXCEPT
                      !.op = "update",
                      !.delta = delta_time,
                      !.branch = update_branch(Self, delta_time),
                      !.removed =
                          IF update_branch(Self, delta_time) = "lock"
                          THEN Len(lines_completed(
                                   add_active_figure_to_board(Self)))
                          ELSE 0]

Perform ==
    \E action \in Action :
        /\ Store(perform(Self, action))
        /\ call' = [NoCall EXCEPT
                      !.op = "perform",
                      !.action = action,
                      !.branch = perform_branch(Self, action),
                      !.kick = IF action = "Rotate"
                               THEN wall_kick_index(Self) ELSE 0]

Next == Update \/ Perform

Spec == Init /\ [][Next]_vars

TypeOK ==
    /\ state \in GameState
    /\ score \in Nat /\ lines \in Nat /\ waiting_time \in 0..MOVING_PERIOD
    /\ active.kind \in FigureType /\ next.kind \in FigureType
    /\ Len(board) = Height /\ \A j \in 1..Height : Len(board[j]) = Width

(* ------------------------- steps of the driver ------------------------- *)
\* The step is a perform(action) call.
PerformStep(action) == call'.op = "perform" /\ call'.action = action

\* The step is an update(delta_time) call.
UpdateStep == call'.op = "update"

\* The step is an update call whose accumulated time crosses the period.
TickStep == UpdateStep /\ waiting_time + call'.delta > MOVING_PERIOD

\* The cells of a figure are inside the board and over empty cells.
InsideAndEmpty(figure, b) ==
    \A c \in ShapeCells(figure.kind, figure.rotation) :
        LET px == figure.position.x + c[1]
            py == figure.position.y + c[2]
        IN  /\ px \in 0..(Width - 1)
            /\ py \in 0..(Height - 1)
            /\ b[py + 1][px + 1] = None

Lowered(figure) ==
    [figure EXCEPT !.position = Point(@.x, @.y + 1)]

\* The step is a gravity tick that runs the lock sequence.
LockStep == TickStep /\ state = "Playing" /\ ~InsideAndEmpty(Lowered(active), board)

SpawnAnchor == Point((Width \div 2) - 2, 0)

(* -------------------------------- claims ------------------------------- *)
\* C1: once the state is GameOver, every perform(action) call leaves the
\* active piece, the board and the score unchanged.
C1_PerformAfterGameOverChangesNothing ==
    [][(state = "GameOver" /\ call'.op = "perform")
           => (active' = active /\ board' = board /\ score' = score)]_vars

\* C2: a lock sequence after which the piece that was next has no valid
\* position at the spawn anchor ends in GameOver, wherever the locked piece
\* landed.
C2_BlockedSpawnEndsGame ==
    [][(LockStep /\ next.position = SpawnAnchor /\ ~InsideAndEmpty(next, board'))
           => state' = "GameOver"]_vars

\* C3: every lock sequence makes the next piece the active piece, with no
\* validity check, and next becomes a fresh piece at the spawn anchor.
C3_LockPromotesNextUnconditionally ==
    [][LockStep
           => /\ active' = next
              /\ next'.position = SpawnAnchor
              /\ next'.rotation = 0]_vars

\* C4: GameOver is terminal: no update or perform call leaves it.
C4_GameOverIsTerminal ==
    [][state = "GameOver" => state' = "GameOver"]_vars

\* A perform call and a ticking update call were both made after GameOver.
C4_Witness ==
    /\ state = "GameOver"
    /\ \/ call.op = "perform"
       \/ call.branch = "over"

\* C5: once the state is GameOver, every update(delta) call leaves the board,
\* score, line count, active piece, next piece and state unchanged.
C5_UpdateAfterGameOverChangesNothing ==
    [][(state = "GameOver" /\ UpdateStep)
           => UNCHANGED <<board, score, lines, active, next, state>>]_vars

\* An update call crossed the gravity period after GameOver.
C5_Witness ==
    /\ state = "GameOver"
    /\ call.op = "update"
    /\ call.branch = "over"
    /\ call.delta > MOVING_PERIOD

\* The translation perform(action) tries for a move action.
Shifted(figure, action) ==
    CASE action = "MoveLeft"  ->
           [figure EXCEPT !.position = Point(@.x - 1, @.y)]
      [] action = "MoveRight" ->
           [figure EXCEPT !.position = Point(@.x + 1, @.y)]
      [] action = "MoveDown"  ->
           [figure EXCEPT !.position = Point(@.x, @.y + 1)]

\* C6: while Playing, perform(MoveLeft | MoveRight | MoveDown) replaces the
\* active piece by its translation iff the translation is inside the board
\* and over empty cells only; otherwise the whole game state stays as it was.
C6_MoveAdoptedIffValid ==
    [][\A action \in {"MoveLeft", "MoveRight", "MoveDown"} :
          (state = "Playing" /\ PerformStep(action))
              => IF InsideAndEmpty(Shifted(active, action), board)
                 THEN active' = Shifted(active, action)
                 ELSE UNCHANGED <<active, board, score, lines, next, state,
                                  waiting_time>>]_vars

\* A move was refused while Playing although the piece itself is placed
\* legally.
C6_Witness ==
    /\ state = "Playing"
    /\ call.op = "perform"
    /\ call.action \in {"MoveLeft", "MoveRight", "MoveDown"}
    /\ call.branch = "ignored"
    /\ InsideAndEmpty(active, board)
    /\ OccupiedCells(board) > 0

\* C7: perform(Rotate) adopts the first wall-kick candidate, in table order,
\* that has a valid position; when none has, the active piece is unchanged.
C7_RotateAdoptsFirstValidCandidate ==
    [][PerformStep("Rotate")
          => LET tests == wall_kicked_rotation_tests(active)
             IN  \/ \E i \in 1..Len(tests) :
                       /\ InsideAndEmpty(tests[i], board)
                       /\ \A j \in 1..(i - 1) : ~InsideAndEmpty(tests[j], board)
                       /\ active' = tests[i]
                 \/ /\ \A i \in 1..Len(tests) : ~InsideAndEmpty(tests[i], board)
                    /\ active' = active]_vars

\* A rotation was adopted through a wall kick: the naive rotation was not
\* valid and a later candidate was.
C7_Witness ==
    /\ call.op = "perform"
    /\ call.action = "Rotate"
    /\ call.kick >= 2
    /\ state = "Playing"

\* The board with the cells of the figure set to its kind.
Stamped(b, figure) ==
    [j \in 1..Height |->
        [i \in 1..Width |->
            IF \E c \in ShapeCells(figure.kind, figure.rotation) :
                   /\ figure.position.x + c[1] = i - 1
                   /\ figure.position.y + c[2] = j - 1
            THEN figure.kind
            ELSE b[j][i]]]

\* Rows (1-based) of a board with no empty cell.
FullRows(b) == {j \in 1..Height : \A i \in 1..Width : b[j][i] # None}

\* b2 is b1 without its full rows: survivors keep their order and move down
\* by the number of removed rows below them, empty rows fill the top.
IsCompaction(b1, b2) ==
    /\ Len(b2) = Height
    /\ \A j \in 1..Height : Len(b2[j]) = Width
    /\ \A j \in 1..Cardinality(FullRows(b1)) :
           \A i \in 1..Width : b2[j][i] = None
    /\ \A j \in (1..Height) \ FullRows(b1) :
           b2[j + Cardinality({k \in FullRows(b1) : k > j})] = b1[j]

C10_UpdateTicksOncePastThePeriod ==
    [][UpdateStep
          => IF waiting_time + call'.delta > MOVING_PERIOD
             THEN /\ waiting_time' = 0
                  /\ state = "Playing" =>
                        IF InsideAndEmpty(Lowered(active), board)
                        THEN /\ active' = Lowered(active)
                             /\ UNCHANGED <<board, score, lines, next, state>>
                        ELSE /\ IsCompaction(Stamped(board, active), board')
                             /\ active' \in {active, next}
                             /\ lines' = lines
                                   + Cardinality(FullRows(Stamped(board, active)))
             ELSE /\ waiting_time' = waiting_time + call'.delta
                  /\ UNCHANGED <<board, score, lines, active, next, state>>]_vars

\* One update with delta above the period moved the piece down one row.
C10_Witness ==
    /\ call.op = "update"
    /\ call.delta > MOVING_PERIOD
    /\ call.branch = "down"
    /\ waiting_time = 0
    /\ active.position.y = 1

\* An update left the accumulated time exactly at the period without a tick.
C10_WitnessAtPeriod ==
    /\ call.op = "update"
    /\ call.branch = "wait"
    /\ waiting_time = MOVING_PERIOD

(* --------------------------- spawning alone ---------------------------- *)
\* Games are created on boards of several widths with any randomizer value,
\* and further next figures are drawn as add_new_active_figure draws them.
SpawnRandoms == (0 - MaxRandom)..MaxRandom
SpawnWidths == Width..(Width + 3)

SpawnInit ==
    \E random1 \in SpawnRandoms, random2 \in SpawnRandoms, w \in SpawnWidths :
        LET g == new(Height, w, random1, random2)
        IN  /\ board = g.board
            /\ score = g.score
            /\ active = g.active
            /\ next = g.next
            /\ waiting_time = g.waiting_time
            /\ state = g.state
            /\ lines = g.lines
            /\ call = [op |-> "new", random |-> <<random1, random2>>,
                       width |-> w]

SpawnDraw ==
    \E random \in SpawnRandoms :
        /\ Store(add_new_active_figure(Self, random))
        /\ call' = [op |-> "add_new_active_figure", random |-> <<random>>,
                    width |-> board_width(board)]

SpawnNext == SpawnDraw

SpawnSpec == SpawnInit /\ [][SpawnNext]_vars

\* The kind the documentation gives for a randomizer value.
KindByIndex(random) ==
    IF random \in 0..5
    THEN <<"I", "J", "L", "O", "S", "T">>[random + 1]
    ELSE "Z"

\* C11: a randomizer value 0..5 spawns I, J, L, O, S, T, any other integer
\* spawns Z, and every spawned piece is created at (width/2 - 2, 0).
C11_SpawnMapsValueToKindAtAnchor ==
    LET anchor == [x |-> (call.width \div 2) - 2, y |-> 0]
    IN  IF call.op = "new"
        THEN /\ active.kind = KindByIndex(call.random[1])
             /\ active.position = anchor
             /\ next.kind = KindByIndex(call.random[2])
             /\ next.position = anchor
        ELSE /\ next.kind = KindByIndex(call.random[1])
             /\ next.position = anchor

\* After a game was created with a value above 6, a negative value was
\* drawn for the next figure, and both gave a Z.
C11_Witness ==
    /\ call.op = "add_new_active_figure"
    /\ call.random[1] < 0
    /\ next.kind = "Z"
    /\ active.kind = "Z"
    /\ call.width = Width + 1

\* C12: whenever the state is Playing, the active piece has a valid position:
\* all its cells are inside the board and over empty cells.
C12_PlayingActiveIsValid ==
    state = "Playing" => InsideAndEmpty(active, board)

\* C14: a gravity tick while Playing either moves the active piece one row
\* down and leaves board, score, lines, next and state alone, or, when the
\* piece cannot move down, runs the lock sequence without moving it down.
C14_TickMovesOrLocks ==
    [][(TickStep /\ state = "Playing")
          => IF InsideAndEmpty(Lowered(active), board)
             THEN /\ active' = Lowered(active)
                  /\ UNCHANGED <<board, score, lines, next, state>>
             ELSE /\ active' # Lowered(active)
                  /\ active' \in {active, next}
                  /\ IsCompaction(Stamped(board, active), board')
                  /\ next'.position = SpawnAnchor]_vars

\* A tick locked a piece that had fallen, and the next piece took its place.
C14_Witness ==
    /\ call.branch = "lock"
    /\ state = "Playing"
    /\ OccupiedCells(board) > 0
    /\ active.position = SpawnAnchor
    /\ InsideAndEmpty(active, board)

\* C15: no perform(action) call changes the board, the score, the line count,
\* the next piece, the state or waiting_time; perform(MoveDown) on a piece
\* that cannot move down does not lock it.
C15_PerformOnlyTouchesActive ==
    [][call'.op = "perform"
          => UNCHANGED <<board, score, lines, next, state, waiting_time>>]_vars

\* perform(MoveDown) was refused for a piece resting on the floor or on the
\* stack, and the piece is still not part of the board.
C15_Witness ==
    /\ call.op = "perform"
    /\ call.action = "MoveDown"
    /\ call.branch = "ignored"
    /\ state = "Playing"
    /\ InsideAndEmpty(active, board)
    /\ ~InsideAndEmpty(Lowered(active), board)

C17_NoFullRowBetweenCalls ==
    FullRows(board) = {}

\* A lock sequence removed a row and left other landed cells on the board.
C17_Witness ==
    /\ call.branch = "lock"
    /\ call.removed >= 1
    /\ OccupiedCells(board) > 0

(* ----------------------- the game under a host loop -------------------- *)
\* The host loop keeps calling update, so gravity ticks keep coming; every
\* call records in call.tick the parity of the gravity ticks made so far.
\* Locks are not limited by MaxCells here: the board fills up. The player
\* makes at most MaxActions perform calls in a game (call.performs counts
\* them), so that no piece is kept in the air forever.
LiveCall(op, action, delta_time, branch, removed, tick) ==
    [op |-> op, action |-> action, delta |-> delta_time, branch |-> branch,
     removed |-> removed, tick |-> tick,
     performs |-> IF op = "new" THEN 0
                  ELSE IF op = "perform" THEN call.performs + 1
                  ELSE call.performs]

LiveInit ==
    \E random1 \in RandomValues, random2 \in RandomValues :
        LET g == new(Height, Width, random1, random2)
        IN  /\ board = g.board
            /\ score = g.score
            /\ active = g.active
            /\ next = g.next
            /\ waiting_time = g.waiting_time
            /\ state = g.state
            /\ lines = g.lines
            /\ call = LiveCall("new", "none", 0, "none", 0, 0)

LiveUpdateWith(delta_time, random) ==
    /\ update_branch(Self, delta_time) = "lock" => lines < MaxLines
    /\ Store(update(Self, delta_time, random))
    /\ call' = LiveCall("update", "none", delta_time,
                        update_branch(Self, delta_time),
                        IF update_branch(Self, delta_time) = "lock"
                        THEN Len(lines_completed(
                                 add_active_figure_to_board(Self)))
                        ELSE 0,
                        IF update_branch(Self, delta_time) = "wait"
                        THEN call.tick ELSE 1 - call.tick)

LiveUpdate ==
    \E delta_time \in 0..MaxDelta, random \in RandomValues :
        LiveUpdateWith(delta_time, random)

\* An update call long enough to cross the period by itself, written stage
\* by stage as update, update_game and update_next_figure run it.
LiveTick ==
    \E random \in RandomValues :
        IF state = "GameOver"
        THEN /\ Store([Self EXCEPT !.waiting_time = 0])
             /\ call' = LiveCall("update", "none", MOVING_PERIOD + 1, "over",
                                 0, 1 - call.tick)
        ELSE IF can_move_down(active, board)
        THEN /\ Store([Self EXCEPT !.active = moved_down(active),
                                   !.waiting_time = 0])
             /\ call' = LiveCall("update", "none", MOVING_PERIOD + 1, "down",
                                 0, 1 - call.tick)
        ELSE \E stamped \in {add_active_figure_to_board(Self)} :
             \E removed \in {remove_completed_lines(stamped)} :
             \E scored \in {add_score_for(removed, removed.lines - lines)} :
             \E spawned \in {add_new_active_figure(scored, random)} :
             \E updated \in {update_state(spawned)} :
                 /\ lines < MaxLines
                 /\ Store([updated EXCEPT !.waiting_time = 0])
                 /\ call' = LiveCall("update", "none", MOVING_PERIOD + 1,
                                     "lock", removed.lines - lines,
                                     1 - call.tick)

\* LiveTick is the update call with delta_time = MOVING_PERIOD + 1.
LiveTickIsUpdate ==
    [][LiveTick <=> \E random \in RandomValues :
                       LiveUpdateWith(MOVING_PERIOD + 1, random)]_vars

LivePerform ==
    \E action \in Action :
        /\ call.performs < MaxActions
        /\ Store(perform(Self, action))
        /\ call' = LiveCall("perform", action, 0,
                            perform_branch(Self, action), 0, call.tick)

LiveNext == LiveUpdate \/ LivePerform

LiveSpec == LiveInit /\ [][LiveNext]_vars /\ WF_vars(LiveTick)

\* C13: when gravity ticks occur infinitely often and rows are removed only
\* finitely often, the game eventually reaches GameOver.
C13_TicksForeverReachGameOver ==
    (/\ []<>(call.tick = 0)
     /\ []<>(call.tick = 1)
     /\ <>[](call.removed = 0))
        => <>(state = "GameOver")

====
